---- MODULE Spec2Model ----
(***************************************************************************)
(* Model of mini-cursor-cli's Merkle tree core (src/merkle) and of the     *)
(* operations that use it.                                                 *)
(*                                                                         *)
(* Strings of characters and of bytes are sequences of code points.        *)
(* A path is the sequence of its components; an absolute path starts with  *)
(* the component "/".  Python's None is NoNode for a node, NonePath for a  *)
(* path and NoneDict for a children mapping.                               *)
(***************************************************************************)
EXTENDS Integers, Sequences, FiniteSets, TLC

VARIABLES fs, edits, hist, trees, snap, out, projects

vars == <<fs, edits, hist, trees, snap, out, projects>>

(***************************************************************************)
(* Bounds of the model.                                                    *)
(***************************************************************************)
\* number of changes the environment makes to the file system
MaxEdits == 1

(***************************************************************************)
(* Results of calls: a value, or the exception that left the call.         *)
(***************************************************************************)
NoNode == [none |-> TRUE]
NonePath == <<>>
NoneDict == [some |-> FALSE, dict |-> <<>>]
SomeDict(d) == [some |-> TRUE, dict |-> d]
EmptyDict == SomeDict(<<>>)

Ok(v) == [exc |-> "none", val |-> v]
Raise(e, v) == [exc |-> e, val |-> v]

\* PermissionError and FileNotFoundError are subclasses of OSError
\* the exception classes of exceptions.py, all of them MerkleTreeError
MerkleTreeErrors == {"InvalidHashError", "EmptyTreeError", "InvalidIndexError"}

OSErrors == {"OSError", "PermissionError", "FileNotFoundError"}

(***************************************************************************)
(* src/merkle/node.py                                                      *)
(***************************************************************************)
HashLen == 64

Digits == 48 .. 57
LowerHex == 97 .. 102
UpperHex == 65 .. 70
HexChars == Digits \cup LowerHex \cup UpperHex

\* str.lower() on an ASCII string
lower(s) == [i \in 1 .. Len(s) |-> IF s[i] \in 65 .. 90 THEN s[i] + 32 ELSE s[i]]

\* MerkleNode._validate_hash: the lowercase hash, or InvalidHashError
_validate_hash(hash_value) ==
  IF Len(hash_value) # HashLen
    THEN Raise("InvalidHashError", <<>>)
    ELSE IF \E i \in 1 .. Len(hash_value) : hash_value[i] \notin HexChars
      THEN Raise("InvalidHashError", <<>>)
      ELSE Ok(lower(hash_value))

\* MerkleNode.__init__ if it kept the children it is given whatever is_file is
MerkleNode_KeepsChildren(name, path, hash, is_file, children) ==
  LET h == _validate_hash(hash)
  IN  IF h.exc # "none"
        THEN Raise(h.exc, NoNode)
        ELSE Ok([name |-> name,
                 path |-> path,
                 hash |-> h.val,
                 is_file |-> is_file,
                 children |-> children])

\* MerkleNode.__init__; children is NoneDict or SomeDict(mapping)
MerkleNode(name, path, hash, is_file, children) ==
  LET h == _validate_hash(hash)
  IN  IF h.exc # "none"
        THEN Raise(h.exc, NoNode)
        ELSE Ok([name |-> name,
                 path |-> path,
                 hash |-> h.val,
                 is_file |-> is_file,
                 children |-> IF ~is_file THEN children ELSE NoneDict])

create_file_node(name, path, content_hash) ==
  MerkleNode(name, path, content_hash, TRUE, NoneDict)

create_directory_node(name, path, combined_hash, children) ==
  MerkleNode(name, path, combined_hash, FALSE, children)

\* truth value of a children mapping if only None were false
Truthy_NotNone(children) == children.some

\* truth value of a children mapping: None and {} are false
Truthy(children) == children.some /\ DOMAIN children.dict # {}

Keys(children) == IF Truthy(children) THEN DOMAIN children.dict ELSE {}

(***************************************************************************)
(* hashlib.sha256(data).hexdigest(): SHA-256 itself is replaced by a       *)
(* stand-in with the same interface, 64 lowercase hexadecimal characters   *)
(* determined by the whole input.                                          *)
(***************************************************************************)
RECURSIVE Mix(_, _, _, _)
Mix(data, i, lo, hi) ==
  IF lo > hi THEN 0
  ELSE IF lo = hi THEN (data[lo] + 1) * (i + lo)
  ELSE LET mid == (lo + hi) \div 2
       IN  Mix(data, i, lo, mid) + Mix(data, i, mid + 1, hi)

HexChar(d) == IF d < 10 THEN 48 + d ELSE 87 + d

sha256(data) == [i \in 1 .. HashLen |-> HexChar((Mix(data, i, 1, Len(data)) % 257) % 16)]

(***************************************************************************)
(* The file system: every path of AllPaths is absent, a file or a          *)
(* directory.                                                              *)
(***************************************************************************)
Cwd == <<"/">>
ProjRoot == <<"/", "proj">>

AllPaths ==
  { ProjRoot,
    ProjRoot \o <<"a.txt">>,
    ProjRoot \o <<"b">>,
    ProjRoot \o <<"b", "c.txt">>,
    ProjRoot \o <<"b", "d.txt">>,
    ProjRoot \o <<".git">>,
    ProjRoot \o <<".git", "config">> }

\* the order of sorted() on the names of the model
NameOrder == <<".git", "a.txt", "b", "c.txt", "config", "d.txt">>

Hello == <<104, 101, 108, 108, 111>>
World == <<119, 111, 114, 108, 100>>
WorldUpper == <<87, 79, 82, 76, 68>>
NewText == <<110, 101, 119>>
Contents == {Hello, World, WorldUpper, NewText}

Absent == [kind |-> "absent", content |-> <<>>, readable |-> TRUE]
FileEntry(c) == [kind |-> "file", content |-> c, readable |-> TRUE]
DirEntry == [kind |-> "dir", content |-> <<>>, readable |-> TRUE]

Parent(path) == SubSeq(path, 1, Len(path) - 1)
basename(path) == path[Len(path)]
join(path, item) == Append(path, item)
abspath(path) == IF path # <<>> /\ path[1] = "/" THEN path ELSE Cwd \o path

exists(f, path) == abspath(path) \in DOMAIN f /\ f[abspath(path)].kind # "absent"
isfile(f, path) == exists(f, path) /\ f[abspath(path)].kind = "file"
isdir(f, path) == exists(f, path) /\ f[abspath(path)].kind = "dir"

\* sorted(os.listdir(path))
RECURSIVE SortedNames(_, _)
SortedNames(S, i) ==
  IF i > Len(NameOrder) THEN <<>>
  ELSE (IF NameOrder[i] \in S THEN <<NameOrder[i]>> ELSE <<>>) \o SortedNames(S, i + 1)

listdir(f, path) == {basename(p) : p \in {q \in DOMAIN f : Parent(q) = path /\ f[q].kind # "absent"}}

(***************************************************************************)
(* src/merkle/tree.py: build                                               *)
(***************************************************************************)
ignored_patterns == {".env", ".gitignore", ".git", ".DS_Store", "__pycache__", ".venv", "venv"}

\* tree.py calls MerkleNode.create_file and MerkleNode.create_directory; class
\* MerkleNode defines create_file_node and create_directory_node only, so the
\* attribute lookup raises AttributeError before any node is made.
create_file(name, path, file_hash) == Raise("AttributeError", NoNode)

create_directory(name, path, dir_hash, children) == Raise("AttributeError", NoNode)

\* lexicographic order of two strings
StrLeq(a, b) ==
  LET n == IF Len(a) < Len(b) THEN Len(a) ELSE Len(b)
      D == {k \in 1 .. n : a[k] # b[k]}
  IN  IF D = {} THEN Len(a) <= Len(b)
      ELSE LET k == CHOOSE x \in D : \A y \in D : x <= y
           IN  a[k] < b[k]

RECURSIVE Insert(_, _)
Insert(h, sorted) ==
  IF sorted = <<>> THEN <<h>>
  ELSE IF StrLeq(h, Head(sorted)) THEN <<h>> \o sorted
  ELSE <<Head(sorted)>> \o Insert(h, Tail(sorted))

\* list.sort() on a list of strings
RECURSIVE SortStrings(_)
SortStrings(hashes) ==
  IF hashes = <<>> THEN <<>> ELSE Insert(Head(hashes), SortStrings(Tail(hashes)))

\* "|".join(child_hashes)
RECURSIVE JoinBar(_)
JoinBar(hashes) ==
  IF hashes = <<>> THEN <<>>
  ELSE IF Len(hashes) = 1 THEN Head(hashes)
  ELSE Head(hashes) \o <<124>> \o JoinBar(Tail(hashes))

\* the directory hash of lines 60-63 from the children in insertion order
DirHash(children, names) ==
  LET child_hashes == [i \in 1 .. Len(names) |-> children[names[i]].hash]
  IN  sha256(JoinBar(SortStrings(child_hashes)))

RECURSIVE _build_recursive(_, _)
RECURSIVE BuildChildren(_, _, _, _)

\* the loop of lines 48-57 over the remaining items
BuildChildren(f, path, items, children) ==
  IF items = <<>> THEN Ok(children)
  ELSE LET item == Head(items)
       IN  IF item \in ignored_patterns
             THEN BuildChildren(f, path, Tail(items), children)
             ELSE LET r == _build_recursive(f, join(path, item))
                  IN  IF r.exc \in OSErrors
                        THEN BuildChildren(f, path, Tail(items), children)
                        ELSE IF r.exc # "none"
                          THEN Raise(r.exc, children)
                          ELSE BuildChildren(f, path, Tail(items),
                                 [n \in DOMAIN children \cup {item} |->
                                    IF n = item THEN r.val ELSE children[n]])

_build_recursive(f, path) ==
  LET name == basename(path)
  IN  IF isfile(f, path)
        THEN IF ~f[path].readable
               THEN Raise("PermissionError", NoNode)
               ELSE create_file(name, path, sha256(f[path].content))
        ELSE IF ~exists(f, path)
          THEN Raise("FileNotFoundError", NoNode)
          ELSE IF ~f[path].readable
            THEN Raise("PermissionError", NoNode)
            ELSE LET c == BuildChildren(f, path, SortedNames(listdir(f, path), 1), <<>>)
                 IN  IF c.exc # "none"
                       THEN Raise(c.exc, NoNode)
                       ELSE create_directory(name, path,
                              DirHash(c.val, SortedNames(DOMAIN c.val, 1)),
                              SomeDict(c.val))

(***************************************************************************)
(* src/merkle/tree.py: find_differences                                    *)
(*                                                                         *)
(* A run of the comparison is recorded in an accumulator: changed is the   *)
(* list changed_files; emitted names, for each entry of changed, the node  *)
(* whose path was appended (its tree, 1 for self and 2 for the other, and  *)
(* its position, the keys leading to it from the root); calls is the set   *)
(* of positions at which _compare_nodes was called; walked is the set of   *)
(* nodes _add_all_files was called on.                                     *)
(***************************************************************************)
NoRun == [exc |-> "none", changed |-> <<>>, emitted |-> <<>>, calls |-> {}, walked |-> {}]

\* the elements of S in the order they have in the sequence ord
RECURSIVE InOrder(_, _)
InOrder(S, ord) ==
  IF ord = <<>> THEN <<>>
  ELSE (IF Head(ord) \in S THEN <<Head(ord)>> ELSE <<>>) \o InOrder(S, Tail(ord))

\* mutant of HashesMatch: the early return on equal hashes is lost
HashesMatch_Never(node1, node2) == FALSE

\* line 90: the two subtrees count as identical
HashesMatch(node1, node2) == node1.hash = node2.hash

\* mutant of IsChangedFile: a File on either side ends the comparison
IsChangedFile_Either(node1, node2) == node1.is_file \/ node2.is_file

\* line 94: the pair is reported as one changed file
IsChangedFile(node1, node2) == node1.is_file

\* line 96: the path reported for a changed file
ChangedPath(node1, node2) == node1.path

\* mutant of IsReportedLeaf: any node without children counts as a file
IsReportedLeaf_Childless(node) == ~Truthy(node.children)

\* line 120: the node is reported by _add_all_files
IsReportedLeaf(node) == node.is_file

Report(acc, path, side, pos) ==
  [acc EXCEPT !.changed = Append(@, path),
              !.emitted = Append(@, [side |-> side, pos |-> pos])]

RECURSIVE _add_all_files(_, _, _, _)
RECURSIVE AddEach(_, _, _, _, _)

\* _add_all_files on each child of node named in names, in that order
AddEach(node, names, acc, side, pos) ==
  IF names = <<>> THEN acc
  ELSE AddEach(node, Tail(names),
               _add_all_files(node.children.dict[Head(names)], acc, side,
                              Append(pos, Head(names))),
               side, pos)

_add_all_files(node, acc, side, pos) ==
  IF acc.exc # "none" THEN acc
  ELSE LET a == [acc EXCEPT !.walked = @ \cup {<<side, pos>>}]
       IN  IF IsReportedLeaf(node)
             THEN Report(a, node.path, side, pos)
             ELSE IF ~node.children.some
               THEN [a EXCEPT !.exc = "AttributeError"]
               ELSE AddEach(node, SortedNames(DOMAIN node.children.dict, 1), a, side, pos)

RECURSIVE _compare_nodes(_, _, _, _, _)
RECURSIVE CompareEach(_, _, _, _, _, _)

\* lines 111-116: _compare_nodes on each common child, in the order of names
CompareEach(node1, node2, names, acc, pos, ord) ==
  IF names = <<>> THEN acc
  ELSE CompareEach(node1, node2, Tail(names),
                   _compare_nodes(node1.children.dict[Head(names)],
                                  node2.children.dict[Head(names)],
                                  acc, Append(pos, Head(names)), ord),
                   pos, ord)

\* ord is the order in which the sets of child names are iterated
_compare_nodes(node1, node2, acc, pos, ord) ==
  IF acc.exc # "none" THEN acc
  ELSE LET a == [acc EXCEPT !.calls = @ \cup {pos}]
       IN  IF HashesMatch(node1, node2) THEN a
           ELSE IF IsChangedFile(node1, node2)
             THEN Report(a, ChangedPath(node1, node2), 1, pos)
             ELSE LET node1_children == Keys(node1.children)
                      node2_children == Keys(node2.children)
                      removed == AddEach(node1, InOrder(node1_children \ node2_children, ord),
                                         a, 1, pos)
                      added == AddEach(node2, InOrder(node2_children \ node1_children, ord),
                                       removed, 2, pos)
                  IN  CompareEach(node1, node2,
                                  InOrder(node1_children \cap node2_children, ord),
                                  added, pos, ord)

\* "return []" of line 78, as a mutant returns it
EmptyResult_RootPath ==
  [NoRun EXCEPT !.changed = <<ProjRoot>>, !.emitted = <<[side |-> 1, pos |-> <<>>]>>]

\* "return []" of line 78
EmptyResult == NoRun

find_differences(self, other_tree, ord) ==
  IF self.root = NoNode \/ other_tree.root = NoNode
    THEN EmptyResult
    ELSE _compare_nodes(self.root, other_tree.root, NoRun, <<>>, ord)

(***************************************************************************)
(* src/merkle/tree.py: to_dict, from_dict, get_root_hash, get_file_count   *)
(*                                                                         *)
(* A node record has the fields name, path, hash, is_file and children;    *)
(* children is NoneDict when the record has no "children" key.             *)
(***************************************************************************)
NoRecord == [none |-> TRUE]

\* a key that the record given to from_dict does not have
MissingField == [missing |-> TRUE]

RECURSIVE _node_to_dict(_)
_node_to_dict(node) ==
  [name |-> node.name,
   path |-> node.path,
   hash |-> node.hash,
   is_file |-> node.is_file,
   children |-> IF ~node.is_file /\ Truthy(node.children)
                  THEN SomeDict([n \in DOMAIN node.children.dict |->
                                   _node_to_dict(node.children.dict[n])])
                  ELSE NoneDict]

to_dict(tree) ==
  IF tree.root = NoNode
    THEN [root |-> NoRecord, root_path |-> tree.root_path]
    ELSE [root |-> _node_to_dict(tree.root), root_path |-> tree.root_path]

RECURSIVE _node_from_dict(_)
RECURSIVE ChildrenFromDict(_, _, _)

\* the comprehension of lines 176-179 over the remaining names
ChildrenFromDict(data, names, children) ==
  IF names = <<>> THEN Ok(children)
  ELSE LET r == _node_from_dict(data.children.dict[Head(names)])
       IN  IF r.exc # "none"
             THEN Raise(r.exc, children)
             ELSE ChildrenFromDict(data, Tail(names),
                    [n \in DOMAIN children \cup {Head(names)} |->
                       IF n = Head(names) THEN r.val ELSE children[n]])

_node_from_dict(data) ==
  IF data.is_file
    THEN create_file(data.name, data.path, data.hash)
    ELSE LET c == IF data.children.some
                    THEN ChildrenFromDict(data, SortedNames(DOMAIN data.children.dict, 1), <<>>)
                    ELSE Ok(<<>>)
         IN  IF c.exc # "none"
               THEN Raise(c.exc, NoNode)
               ELSE create_directory(data.name, data.path, data.hash, SomeDict(c.val))

\* the tree, or the exception; a record whose root is None gives a tree without root
from_dict(data) ==
  IF data.root = MissingField
    THEN Raise("KeyError", [root |-> NoNode, root_path |-> data.root_path])
  ELSE IF data.root = NoRecord
    THEN Ok([root |-> NoNode, root_path |-> data.root_path])
    ELSE LET r == _node_from_dict(data.root)
         IN  IF r.exc # "none"
               THEN Raise(r.exc, [root |-> NoNode, root_path |-> data.root_path])
               ELSE Ok([root |-> r.val, root_path |-> data.root_path])

\* get_root_hash if it gave an empty string for a tree without root
get_root_hash_Default(tree) ==
  IF tree.root = NoNode THEN Ok(<<>>) ELSE Ok(tree.root.hash)

get_root_hash(tree) ==
  IF tree.root = NoNode THEN Raise("EmptyTreeError", <<>>) ELSE Ok(tree.root.hash)

RECURSIVE _count_files(_)
RECURSIVE CountEach(_, _)

CountEach(node, names) ==
  IF names = <<>> THEN 0
  ELSE _count_files(node.children.dict[Head(names)]) + CountEach(node, Tail(names))

_count_files(node) ==
  IF node.is_file THEN 1
  ELSE IF Truthy(node.children)
    THEN CountEach(node, SortedNames(DOMAIN node.children.dict, 1))
    ELSE 0

get_file_count(tree) == IF tree.root = NoNode THEN 0 ELSE _count_files(tree.root)

\* build_from_directory with line 32 moved before the check of line 29
build_from_directory_PathFirst(tree, f, root_path) ==
  IF ~exists(f, root_path)
    THEN Raise("FileNotFoundError", [tree EXCEPT !.root_path = abspath(root_path)])
    ELSE LET r == _build_recursive(f, abspath(root_path))
         IN  IF r.exc # "none"
               THEN Raise(r.exc, [tree EXCEPT !.root_path = abspath(root_path)])
               ELSE Ok([root |-> r.val, root_path |-> abspath(root_path)])

\* build_from_directory on a tree object: the object as the call leaves it
build_from_directory(tree, f, root_path) ==
  IF ~exists(f, root_path)
    THEN Raise("FileNotFoundError", tree)
    ELSE LET r == _build_recursive(f, abspath(root_path))
         IN  IF r.exc # "none"
               THEN Raise(r.exc, [tree EXCEPT !.root_path = abspath(root_path)])
               ELSE Ok([root |-> r.val, root_path |-> abspath(root_path)])

\* MerkleTree(root_path): the new object, or the exception and no object
MerkleTree(f, root_path) ==
  LET tree == [root |-> NoNode, root_path |-> root_path]
  IN  IF root_path # NonePath THEN build_from_directory(tree, f, root_path) ELSE Ok(tree)

(***************************************************************************)
(* State.                                                                  *)
(*   fs     the file system                                                *)
(*   edits  the number of changes made to it                               *)
(*   hist   the file systems there have been, oldest first                 *)
(*   trees  the MerkleTree object each program variable holds              *)
(*   snap   for each variable, the last build over an existing path: the   *)
(*          index in hist of the file system it read, how it ended and     *)
(*          the absolute path it was given                                 *)
(*   out    the last call and what it gave: the exception, the run of a   *)
(*          comparison, the record of to_dict, the node or the number a    *)
(*          call returned, the response of a sync                          *)
(*   projects  the registry of the server: project id to its entry         *)
(***************************************************************************)
Slots == {"A", "B"}

NoTree == [alive |-> FALSE, root |-> NoNode, root_path |-> NonePath]
Held(tree) == [alive |-> TRUE, root |-> tree.root, root_path |-> tree.root_path]
Obj(slot) == [root |-> trees[slot].root, root_path |-> trees[slot].root_path]

NoSnap == [at |-> 0, exc |-> "none", path |-> NonePath]

\* ServerState.projects before any registration
NoProjects == [id \in {} |-> NoRecord]

\* no SyncResponse
NoResp == [server_has_project |-> FALSE, trees_match |-> FALSE, changed_files |-> <<>>]

Idle == [op |-> "none", exc |-> "none", self |-> "A", other |-> "A", arg |-> NonePath,
         run |-> NoRun, data |-> [root |-> NoRecord, root_path |-> NonePath],
         node |-> NoNode, count |-> 0, resp |-> NoResp]

InitFs ==
  [p \in AllPaths |->
     IF p \in {ProjRoot, ProjRoot \o <<"b">>, ProjRoot \o <<".git">>} THEN DirEntry
     ELSE IF p = ProjRoot \o <<"a.txt">> THEN FileEntry(Hello)
     ELSE IF p = ProjRoot \o <<"b", "c.txt">> THEN FileEntry(World)
     ELSE IF p = ProjRoot \o <<".git", "config">> THEN FileEntry(NewText)
     ELSE Absent]

\* the paths a caller passes: absolute, relative to the working directory, a
\* subdirectory, missing
InputPaths == {ProjRoot, <<"proj">>, ProjRoot \o <<"b">>, <<"/", "nowhere">>}

\* the files the environment changes
UserPaths == {p \in AllPaths : ".git" \notin {p[i] : i \in 1 .. Len(p)}}

Init ==
  /\ fs = InitFs
  /\ edits = 0
  /\ hist = <<InitFs>>
  /\ trees = [s \in Slots |-> NoTree]
  /\ snap = [s \in Slots |-> NoSnap]
  /\ out = Idle
  /\ projects = NoProjects

Edit(f) ==
  /\ edits < MaxEdits
  /\ fs' = f
  /\ edits' = edits + 1
  /\ hist' = Append(hist, f)
  /\ out' = Idle
  /\ UNCHANGED <<trees, snap, projects>>

\* the content of an existing file is replaced
WriteFile(p, c) ==
  /\ fs[p].kind = "file"
  /\ fs[p].content # c
  /\ Edit([fs EXCEPT ![p] = FileEntry(c)])

\* a new file appears in an existing directory
AddFile(p, c) ==
  /\ fs[p].kind = "absent"
  /\ fs[Parent(p)].kind = "dir"
  /\ Edit([fs EXCEPT ![p] = FileEntry(c)])

DeleteFile(p) ==
  /\ fs[p].kind = "file"
  /\ Edit([fs EXCEPT ![p] = Absent])

\* a file gets another name in its directory
RenameFile(p, q) ==
  /\ fs[p].kind = "file"
  /\ fs[q].kind = "absent"
  /\ Parent(p) = Parent(q)
  /\ Edit([fs EXCEPT ![p] = Absent, ![q] = fs[p]])

\* an existing entry can no longer be opened, read or listed
Protect(p) ==
  /\ fs[p].kind # "absent"
  /\ fs[p].readable
  /\ Edit([fs EXCEPT ![p].readable = FALSE])

\* the content of a file under an ignored directory is replaced
WriteIgnored(p, c) ==
  /\ fs[p].kind = "file"
  /\ fs[p].content # c
  /\ Edit([fs EXCEPT ![p] = FileEntry(c)])

\* tree = MerkleTree()
NewEmpty(s) ==
  /\ trees' = [trees EXCEPT ![s] = Held(MerkleTree(fs, NonePath).val)]
  /\ snap' = [snap EXCEPT ![s] = NoSnap]
  /\ out' = [Idle EXCEPT !.op = "MerkleTree", !.self = s]
  /\ UNCHANGED <<fs, edits, hist, projects>>

\* tree = MerkleTree(p): on an exception the variable keeps what it held
NewFrom(s, p) ==
  LET r == MerkleTree(fs, p)
  IN  /\ trees' = IF r.exc = "none" THEN [trees EXCEPT ![s] = Held(r.val)] ELSE trees
      /\ snap' = IF exists(fs, p)
                   THEN [snap EXCEPT ![s] = [at |-> Len(hist), exc |-> r.exc, path |-> abspath(p)]]
                   ELSE snap
      /\ out' = [Idle EXCEPT !.op = "MerkleTree", !.exc = r.exc, !.self = s, !.arg = p]
      /\ UNCHANGED <<fs, edits, hist, projects>>

\* tree.build_from_directory(p) on an object that exists
BuildFromDirectory(s, p) ==
  LET r == build_from_directory(Obj(s), fs, p)
  IN  /\ trees[s].alive
      /\ trees' = [trees EXCEPT ![s] = Held(r.val)]
      /\ snap' = IF exists(fs, p)
                   THEN [snap EXCEPT ![s] = [at |-> Len(hist), exc |-> r.exc, path |-> abspath(p)]]
                   ELSE snap
      /\ out' = [Idle EXCEPT !.op = "build_from_directory", !.exc = r.exc, !.self = s,
                             !.arg = p]
      /\ UNCHANGED <<fs, edits, hist, projects>>

\* the orders in which a set of child names may be iterated
\* (a directory of the model holds at most the two names a.txt and b)
Orders == {<<"a.txt", "b", "c.txt", "d.txt">>, <<"b", "a.txt", "c.txt", "d.txt">>}

\* trees[s1].find_differences(trees[s2])
FindDifferences(s1, s2) ==
  /\ trees[s1].alive
  /\ trees[s2].alive
  /\ \E ord \in Orders :
       LET r == find_differences(Obj(s1), Obj(s2), ord)
       IN  out' = [Idle EXCEPT !.op = "find_differences", !.exc = r.exc, !.self = s1,
                               !.other = s2, !.run = r]
  /\ UNCHANGED <<fs, edits, hist, trees, snap, projects>>

\* to_dict if it also stored the absolute root_path in the object
ToDict_Normalising(s) ==
  /\ trees[s].alive
  /\ out' = [Idle EXCEPT !.op = "to_dict", !.self = s, !.data = to_dict(Obj(s))]
  /\ trees' = [trees EXCEPT ![s].root_path = abspath(trees[s].root_path)]
  /\ UNCHANGED <<fs, edits, hist, snap, projects>>

\* trees[s].to_dict()
ToDict(s) ==
  /\ trees[s].alive
  /\ out' = [Idle EXCEPT !.op = "to_dict", !.self = s, !.data = to_dict(Obj(s))]
  /\ UNCHANGED <<fs, edits, hist, trees, snap, projects>>

\* trees[dst] = MerkleTree.from_dict(d) for the record d that to_dict just gave
FromDict(dst) ==
  LET r == from_dict(out.data)
  IN  /\ out.op = "to_dict"
      /\ trees' = IF r.exc = "none" THEN [trees EXCEPT ![dst] = Held(r.val)] ELSE trees
      /\ snap' = IF r.exc = "none" THEN [snap EXCEPT ![dst] = NoSnap] ELSE snap
      /\ out' = [out EXCEPT !.op = "from_dict", !.exc = r.exc, !.other = dst]
      /\ UNCHANGED <<fs, edits, hist, projects>>

Next ==
  \/ \E p \in UserPaths, c \in Contents : WriteFile(p, c)
  \/ \E p \in UserPaths, c \in Contents : AddFile(p, c)
  \/ \E p \in UserPaths : DeleteFile(p)
  \/ \E p, q \in UserPaths : RenameFile(p, q)
  \/ \E p \in UserPaths : Protect(p)
  \/ \E p \in AllPaths \ UserPaths, c \in Contents : WriteIgnored(p, c)
  \/ \E s \in Slots : NewEmpty(s)
  \/ \E s \in Slots, p \in InputPaths : NewFrom(s, p)
  \/ \E s \in Slots, p \in InputPaths : BuildFromDirectory(s, p)
  \/ \E s1, s2 \in Slots : FindDifferences(s1, s2)
  \/ \E s \in Slots : ToDict(s)
  \/ \E s \in Slots : FromDict(s)

Spec == Init /\ [][Next]_vars

(***************************************************************************)
(* Trees put together from nodes made by MerkleNode.create_file_node and   *)
(* MerkleNode.create_directory_node, the only way to a tree with a root:   *)
(* here the hashes are the caller's, any valid hash strings.               *)
(***************************************************************************)
Rep(c) == [i \in 1 .. HashLen |-> c]
HashA == Rep(97)
HashB == Rep(98)
\* hash strings a caller passes: valid, valid in upper case, one character short
HashInputs == {HashA, HashB, Rep(65), SubSeq(HashB, 1, HashLen - 1)}

CopyRoot == <<"/", "copy">>

\* the names a directory at a position may hold, and where a directory may be
ShapeChildren(pos) ==
  IF pos = <<>> THEN {"a.txt", "b"} ELSE IF pos = <<"b">> THEN {"c.txt"} ELSE {}
DirPositions == {<<>>, <<"b">>}

Made(results) == {r.val : r \in {x \in results : x.exc = "none"}}

RECURSIVE NodesAt(_, _)
NodesAt(rp, pos) ==
  LET path == rp \o pos
      name == basename(path)
      files == Made({create_file_node(name, path, h) : h \in HashInputs})
      below == [n \in ShapeChildren(pos) |-> NodesAt(rp, Append(pos, n))]
      dicts == UNION {{d \in [S -> UNION {below[n] : n \in S}] : \A n \in S : d[n] \in below[n]} :
                      S \in SUBSET ShapeChildren(pos)}
      dirs == IF pos \in DirPositions
                THEN Made({create_directory_node(name, path, h, SomeDict(d)) :
                             h \in HashInputs, d \in dicts})
                ELSE {}
  IN  files \cup dirs

TreesAt(rp) ==
  {[alive |-> TRUE, root |-> NoNode, root_path |-> NonePath]}
    \cup {[alive |-> TRUE, root |-> n, root_path |-> rp] : n \in NodesAt(rp, <<>>)}

InitNodes ==
  /\ fs = InitFs
  /\ edits = 0
  /\ hist = <<InitFs>>
  /\ snap = [s \in Slots |-> NoSnap]
  /\ out = Idle
  /\ projects = NoProjects
  /\ \E a \in TreesAt(ProjRoot), b \in TreesAt(ProjRoot) \cup TreesAt(CopyRoot) :
       trees = [s \in Slots |-> IF s = "A" THEN a ELSE b]

NextNodes == \E s1, s2 \in Slots : FindDifferences(s1, s2)

SpecNodes == InitNodes /\ [][NextNodes]_vars

(***************************************************************************)
(* Reading a run of find_differences.                                      *)
(***************************************************************************)
RECURSIVE NodeAt(_, _)
NodeAt(node, pos) ==
  IF pos = <<>> THEN node ELSE NodeAt(node.children.dict[Head(pos)], Tail(pos))

\* the positions of the nodes of the graph under node
RECURSIVE PositionsOf(_)
PositionsOf(node) ==
  {<<>>} \cup UNION {{<<n>> \o q : q \in PositionsOf(node.children.dict[n])} :
                     n \in Keys(node.children)}

FilePositionsOf(node) == {q \in PositionsOf(node) : NodeAt(node, q).is_file}

\* q is p or lies below p
AtOrBelow(p, q) == Len(p) <= Len(q) /\ SubSeq(q, 1, Len(p)) = p
Below(p, q) == AtOrBelow(p, q) /\ p # q

Diffed == out.op = "find_differences" /\ trees[out.self].root # NoNode
            /\ trees[out.other].root # NoNode
Root1 == trees[out.self].root
Root2 == trees[out.other].root
RootOf(side) == IF side = 1 THEN Root1 ELSE Root2

\* the entries of changed_files that were appended at or below position p
ReportedAt(p) == {i \in 1 .. Len(out.run.changed) : AtOrBelow(p, out.run.emitted[i].pos)}

(***************************************************************************)
(* C8  Pruning: a compared pair with equal hashes ends the comparison      *)
(* there: nothing at or below it is reported, no descendant is compared    *)
(* or walked; and the pairs compared are the root pair and the common      *)
(* children of pairs of directories whose hashes differ.                   *)
(***************************************************************************)
C8_Pruning ==
  Diffed =>
    /\ \A p \in out.run.calls :
         NodeAt(Root1, p).hash = NodeAt(Root2, p).hash =>
           /\ ReportedAt(p) = {}
           /\ \A q \in out.run.calls : ~Below(p, q)
           /\ \A w \in out.run.walked : ~AtOrBelow(p, w[2])
    /\ \A p \in out.run.calls :
         \/ p = <<>>
         \/ LET a == NodeAt(Root1, Parent(p))
                b == NodeAt(Root2, Parent(p))
            IN  /\ Parent(p) \in out.run.calls
                /\ ~a.is_file /\ ~b.is_file
                /\ a.hash # b.hash
                /\ basename(p) \in Keys(a.children) \cap Keys(b.children)

\* a pair below the root was pruned although the two subtrees differ
C8_Witness ==
  /\ Diffed
  /\ \E p \in out.run.calls :
       /\ p # <<>>
       /\ NodeAt(Root1, p).hash = NodeAt(Root2, p).hash
       /\ Keys(NodeAt(Root1, p).children) # Keys(NodeAt(Root2, p).children)
  /\ out.run.changed # <<>>

C10_NeverDirectoryPath ==
  (Diffed /\ out.exc = "none") =>
    \A i \in 1 .. Len(out.run.changed) :
      /\ \E side \in {1, 2} : \E q \in FilePositionsOf(RootOf(side)) :
           out.run.changed[i] = NodeAt(RootOf(side), q).path
      /\ \A side \in {1, 2} : \A q \in PositionsOf(RootOf(side)) :
           ~NodeAt(RootOf(side), q).is_file =>
             out.run.changed[i] # NodeAt(RootOf(side), q).path

(***************************************************************************)
(* C10  amended: every entry of the result was appended from a File node   *)
(* of one of the two trees and is that node's path; no entry is appended   *)
(* from a Directory node. (The same path can belong to a Directory node    *)
(* of the other tree.)                                                     *)
(***************************************************************************)
C10_OnlyFilePaths ==
  (Diffed /\ out.exc = "none") =>
    /\ Len(out.run.emitted) = Len(out.run.changed)
    /\ \A i \in 1 .. Len(out.run.changed) :
         LET e == out.run.emitted[i]
         IN  /\ e.pos \in FilePositionsOf(RootOf(e.side))
             /\ out.run.changed[i] = NodeAt(RootOf(e.side), e.pos).path

\* a File's path was reported that is a Directory's path in the other tree
C10_Witness ==
  /\ Diffed
  /\ out.exc = "none"
  /\ \E i \in 1 .. Len(out.run.changed) :
       LET e == out.run.emitted[i]
       IN  /\ NodeAt(RootOf(e.side), e.pos).is_file
           /\ \E q \in PositionsOf(RootOf(3 - e.side)) :
                /\ ~NodeAt(RootOf(3 - e.side), q).is_file
                /\ NodeAt(RootOf(3 - e.side), q).path = out.run.changed[i]

(***************************************************************************)
(* Reading two builds: what each read and what it gave.                    *)
(***************************************************************************)
\* the variable s went through a build over the project root
Built(s) == snap[s].at > 0 /\ snap[s].path = ProjRoot
SnapFs(s) == hist[snap[s].at]
BuiltOk(s) == Built(s) /\ snap[s].exc = "none" /\ trees[s].root # NoNode

Range(seq) == {seq[i] : i \in 1 .. Len(seq)}

\* the node of the tree in s that stands for path p
NodeOfPath(s, p) == NodeAt(trees[s].root, SubSeq(p, Len(trees[s].root_path) + 1, Len(p)))

\* the directories from the root down to the one holding p
Ancestors(p) == {SubSeq(p, 1, k) : k \in Len(ProjRoot) .. Len(p) - 1}

FilesOf(f) == {p \in UserPaths : f[p].kind = "file"}

\* fb is fa with the content of file p replaced by content of another hash
ContentChanged(fa, fb, p) ==
  /\ fa[p].kind = "file" /\ fb[p].kind = "file"
  /\ sha256(fa[p].content) # sha256(fb[p].content)
  /\ \A q \in AllPaths \ {p} : fa[q] = fb[q]

\* fb is fa with the new file p
Added(fa, fb, p) ==
  /\ fa[p].kind = "absent" /\ fb[p].kind = "file"
  /\ \A q \in AllPaths \ {p} : fa[q] = fb[q]

\* fb is fa with file p renamed to q in its directory
Renamed(fa, fb, p, q) ==
  /\ p # q /\ Parent(p) = Parent(q)
  /\ fa[p].kind = "file" /\ fa[q].kind = "absent"
  /\ fb[p].kind = "absent" /\ fb[q] = fa[p]
  /\ \A x \in AllPaths \ {p, q} : fa[x] = fb[x]

\* the file paths whose existence or content differs between fa and fb
ChangedSet(fa, fb) ==
  {p \in UserPaths :
     /\ fa[p].kind = "file" \/ fb[p].kind = "file"
     /\ fa[p].kind # fb[p].kind \/ sha256(fa[p].content) # sha256(fb[p].content)}

(***************************************************************************)
(* C1  Round trip: every build over an existing path gives a tree t, and   *)
(* from_dict(to_dict(t)) has t's root hash, root_path and file count and   *)
(* does not differ from t.                                                 *)
(***************************************************************************)
C1_RoundTrip ==
  \A s \in Slots :
    Built(s) =>
      /\ BuiltOk(s)
      /\ LET t == Obj(s)
             r == from_dict(to_dict(t))
         IN  /\ r.exc = "none"
             /\ get_root_hash(r.val) = get_root_hash(t)
             /\ r.val.root_path = t.root_path
             /\ get_file_count(r.val) = get_file_count(t)
             /\ \A ord \in Orders : find_differences(t, r.val, ord).changed = <<>>

(***************************************************************************)
(* C2  Single-file-change locality: for tree A and tree B built after the  *)
(* content of one file f changed, find_differences(A, B) is exactly the    *)
(* path of f, every other File node has the same hash in A and B, and      *)
(* every directory above f, the root included, has a different hash.       *)
(***************************************************************************)
C2_SingleFileChange ==
  (Built("A") /\ Built("B")) =>
    \A f \in UserPaths :
      ContentChanged(SnapFs("A"), SnapFs("B"), f) =>
        /\ BuiltOk("A") /\ BuiltOk("B")
        /\ \A ord \in Orders : find_differences(Obj("A"), Obj("B"), ord).changed = <<f>>
        /\ \A p \in FilesOf(SnapFs("A")) \ {f} : NodeOfPath("A", p).hash = NodeOfPath("B", p).hash
        /\ \A d \in Ancestors(f) : NodeOfPath("A", d).hash # NodeOfPath("B", d).hash

(***************************************************************************)
(* C3  Addition: for tree A and tree B built after one new file p was      *)
(* added, the set of find_differences(A, B) is exactly {p} and no other    *)
(* file's hash changes.                                                    *)
(***************************************************************************)
C3_Addition ==
  (Built("A") /\ Built("B")) =>
    \A p \in UserPaths :
      Added(SnapFs("A"), SnapFs("B"), p) =>
        /\ BuiltOk("A") /\ BuiltOk("B")
        /\ \A ord \in Orders : Range(find_differences(Obj("A"), Obj("B"), ord).changed) = {p}
        /\ \A q \in FilesOf(SnapFs("A")) : NodeOfPath("A", q).hash = NodeOfPath("B", q).hash

(***************************************************************************)
(* C4  Removal: for tree A and tree B built after one file p was deleted,  *)
(* the set of find_differences(A, B) is exactly {p}.                       *)
(***************************************************************************)
C4_Removal ==
  (Built("A") /\ Built("B")) =>
    \A p \in UserPaths :
      Added(SnapFs("B"), SnapFs("A"), p) =>
        /\ BuiltOk("A") /\ BuiltOk("B")
        /\ \A ord \in Orders : Range(find_differences(Obj("A"), Obj("B"), ord).changed) = {p}

(***************************************************************************)
(* C5  Reflexivity: find_differences(t, t) is empty for every tree t, and  *)
(* two trees built over identical contents have equal root hashes and no   *)
(* differences.                                                            *)
(***************************************************************************)
C5_Reflexivity ==
  /\ \A s \in Slots :
       trees[s].alive =>
         \A ord \in Orders : find_differences(Obj(s), Obj(s), ord).changed = <<>>
  /\ (Built("A") /\ Built("B") /\ \A p \in UserPaths : SnapFs("A")[p] = SnapFs("B")[p]) =>
       /\ BuiltOk("A") /\ BuiltOk("B")
       /\ trees["A"].root.hash = trees["B"].root.hash
       /\ \A ord \in Orders : find_differences(Obj("A"), Obj("B"), ord).changed = <<>>

(***************************************************************************)
(* C6  Rename: for tree A and tree B built after a file was renamed in its *)
(* directory from p to q, find_differences(A, B) holds both p and q.       *)
(***************************************************************************)
C6_Rename ==
  (Built("A") /\ Built("B")) =>
    \A p, q \in UserPaths :
      Renamed(SnapFs("A"), SnapFs("B"), p, q) =>
        /\ BuiltOk("A") /\ BuiltOk("B")
        /\ \A ord \in Orders :
             {p, q} \subseteq Range(find_differences(Obj("A"), Obj("B"), ord).changed)

(***************************************************************************)
(* C7  Changed-file set: for two trees built as snapshots of one root, the *)
(* set of find_differences(A, B) is exactly the set of file paths that     *)
(* exist in one snapshot only or have different content in the two.        *)
(***************************************************************************)
C7_ChangedFileSet ==
  (Built("A") /\ Built("B")) =>
    /\ BuiltOk("A") /\ BuiltOk("B")
    /\ \A ord \in Orders :
         Range(find_differences(Obj("A"), Obj("B"), ord).changed)
           = ChangedSet(SnapFs("A"), SnapFs("B"))

(***************************************************************************)
(* C11  If either tree given to find_differences has no root, the result   *)
(* is the empty list whatever the other tree holds, and nothing is raised. *)
(***************************************************************************)
C11_EmptyTree ==
  (out.op = "find_differences"
     /\ (trees[out.self].root = NoNode \/ trees[out.other].root = NoNode)) =>
    /\ out.exc = "none"
    /\ out.run.exc = "none"
    /\ out.run.changed = <<>>
    /\ out.run.calls = {} /\ out.run.walked = {}

\* a tree without root was compared, either way round, with a tree holding files
C11_Witness ==
  /\ out.op = "find_differences"
  /\ trees[out.self].root = NoNode
  /\ trees[out.other].root # NoNode
  /\ FilePositionsOf(trees[out.other].root) # {}

\* the lists of the child hashes of a Directory node, one for every order of its children
ChildHashLists(node) ==
  LET S == Keys(node.children)
      n == Cardinality(S)
  IN  {[i \in 1 .. n |-> node.children.dict[o[i]].hash] :
         o \in {f \in [1 .. n -> S] : \A i, j \in 1 .. n : f[i] = f[j] => i = j}}

\* the hash of Directory node is the composition of the hashes of the children it holds
Composed(node) ==
  \A hs \in ChildHashLists(node) : node.hash = sha256(JoinBar(SortStrings(hs)))

(***************************************************************************)
(* C12  Directory hash composition in build: a build over a directory      *)
(* gives a tree in which every Directory node's hash is SHA-256 of its     *)
(* children's hashes, sorted as strings and joined with "|", whatever the  *)
(* order in which the children are listed.                                 *)
(***************************************************************************)
C12_DirectoryHash ==
  \A s \in Slots :
    Built(s) =>
      /\ BuiltOk(s)
      /\ ~trees[s].root.is_file
      /\ \A q \in PositionsOf(trees[s].root) :
           ~NodeAt(trees[s].root, q).is_file => Composed(NodeAt(trees[s].root, q))

(***************************************************************************)
(* src/merkle/node.py: add_child, get_child                                *)
(***************************************************************************)
\* add_child if it also gave the node the hash of the child
add_child_Rehashing(self, child) ==
  IF self.is_file
    THEN Raise("ValueError", self)
    ELSE LET held == IF self.children.some THEN self.children.dict ELSE <<>>
         IN  Ok([self EXCEPT !.hash = child.hash,
                             !.children =
                   SomeDict([n \in DOMAIN held \cup {child.name} |->
                               IF n = child.name THEN child ELSE held[n]])])

\* the node after self.add_child(child), or ValueError
add_child(self, child) ==
  IF self.is_file
    THEN Raise("ValueError", self)
    ELSE LET held == IF self.children.some THEN self.children.dict ELSE <<>>
         IN  Ok([self EXCEPT !.children =
                   SomeDict([n \in DOMAIN held \cup {child.name} |->
                               IF n = child.name THEN child ELSE held[n]])])

get_child(self, name) ==
  IF self.is_file \/ ~Truthy(self.children)
    THEN NoNode
    ELSE IF name \in DOMAIN self.children.dict THEN self.children.dict[name] ELSE NoNode

\* the graph under root after the node at pos has become new
RECURSIVE WithNodeAt(_, _, _)
WithNodeAt(root, pos, new) ==
  IF pos = <<>> THEN new
  ELSE [root EXCEPT !.children.dict[Head(pos)] =
          WithNodeAt(root.children.dict[Head(pos)], Tail(pos), new)]

(***************************************************************************)
(* The operations of MerkleNode and MerkleTree on trees that hold nodes:   *)
(* the first tree is any tree of the universe above, the second has no     *)
(* root or is one fixed tree.                                              *)
(***************************************************************************)
\* a tree with the hashes a build computes: each Directory's hash composed of its children's
PeerTree ==
  LET c == create_file_node("c.txt", ProjRoot \o <<"b", "c.txt">>, HashA).val
      b == create_directory_node("b", ProjRoot \o <<"b">>, sha256(JoinBar(<<c.hash>>)),
                                 SomeDict([n \in {"c.txt"} |-> c])).val
      r == create_directory_node("proj", ProjRoot, sha256(JoinBar(<<b.hash>>)),
                                 SomeDict([n \in {"b"} |-> b])).val
  IN  [alive |-> TRUE, root |-> r, root_path |-> ProjRoot]

\* hash arguments a caller passes: HashInputs, 65 characters, not hexadecimal
NotAHash == <<110, 111, 116, 45, 97, 45, 104, 97, 115, 104>>
HashArgs == HashInputs \cup {Append(HashA, 97), Rep(103), NotAHash}

\* the child a caller adds to the node at a path
ChildInput(path) == create_file_node("c.txt", path \o <<"c.txt">>, HashA).val

\* the records a caller gives to from_dict: one File, one Directory holding it
RecordInputs ==
  {[root |-> [name |-> "proj", path |-> ProjRoot, hash |-> h, is_file |-> TRUE,
              children |-> NoneDict],
    root_path |-> ProjRoot] : h \in HashArgs}
  \cup
  {[root |-> [name |-> "proj", path |-> ProjRoot, hash |-> HashA, is_file |-> FALSE,
              children |-> SomeDict([n \in {"a.txt"} |->
                             [name |-> "a.txt", path |-> ProjRoot \o <<"a.txt">>, hash |-> h,
                              is_file |-> TRUE, children |-> NoneDict]])],
    root_path |-> ProjRoot] : h \in {HashB, NotAHash}}

InitOps ==
  /\ fs = InitFs
  /\ edits = 0
  /\ hist = <<InitFs>>
  /\ snap = [s \in Slots |-> NoSnap]
  /\ out = Idle
  /\ projects = NoProjects
  /\ \E a \in TreesAt(ProjRoot),
        b \in {[alive |-> TRUE, root |-> NoNode, root_path |-> NonePath], PeerTree} :
       trees = [s \in Slots |-> IF s = "A" THEN a ELSE b]

\* MerkleNode.create_file_node(name, path, h)
CreateFileNode(h) ==
  LET r == create_file_node("a.txt", ProjRoot \o <<"a.txt">>, h)
  IN  /\ out' = [Idle EXCEPT !.op = "create_file_node", !.exc = r.exc, !.arg = h,
                             !.node = r.val]
      /\ UNCHANGED <<fs, edits, hist, trees, snap, projects>>

\* MerkleNode.create_directory_node(name, path, h, {})
CreateDirectoryNode(h) ==
  LET r == create_directory_node("b", ProjRoot \o <<"b">>, h, EmptyDict)
  IN  /\ out' = [Idle EXCEPT !.op = "create_directory_node", !.exc = r.exc, !.arg = h,
                             !.node = r.val]
      /\ UNCHANGED <<fs, edits, hist, trees, snap, projects>>

\* node.add_child(child) on the node at pos of trees[s]
AddChild(s, pos) ==
  /\ trees[s].root # NoNode
  /\ pos \in PositionsOf(trees[s].root)
  /\ LET node == NodeAt(trees[s].root, pos)
         child == ChildInput(node.path)
         r == add_child(node, child)
     IN  /\ trees' = [trees EXCEPT ![s].root = WithNodeAt(trees[s].root, pos, r.val)]
         /\ out' = [Idle EXCEPT !.op = "add_child", !.exc = r.exc, !.self = s, !.arg = pos,
                                !.node = child]
  /\ UNCHANGED <<fs, edits, hist, snap, projects>>

\* node.get_child(name) on the node at pos of trees[s]
GetChild(s, pos, name) ==
  /\ trees[s].root # NoNode
  /\ pos \in PositionsOf(trees[s].root)
  /\ out' = [Idle EXCEPT !.op = "get_child", !.self = s, !.arg = pos,
                         !.node = get_child(NodeAt(trees[s].root, pos), name)]
  /\ UNCHANGED <<fs, edits, hist, trees, snap, projects>>

\* trees[s].get_root_hash()
GetRootHash(s) ==
  LET r == get_root_hash(Obj(s))
  IN  /\ trees[s].alive
      /\ out' = [Idle EXCEPT !.op = "get_root_hash", !.exc = r.exc, !.self = s, !.arg = r.val]
      /\ UNCHANGED <<fs, edits, hist, trees, snap, projects>>

\* trees[s].get_file_count()
GetFileCount(s) ==
  /\ trees[s].alive
  /\ out' = [Idle EXCEPT !.op = "get_file_count", !.self = s, !.count = get_file_count(Obj(s))]
  /\ UNCHANGED <<fs, edits, hist, trees, snap, projects>>

\* trees[dst] = MerkleTree.from_dict(d) for a record d the caller wrote
FromRecord(dst, d) ==
  LET r == from_dict(d)
  IN  /\ trees' = IF r.exc = "none" THEN [trees EXCEPT ![dst] = Held(r.val)] ELSE trees
      /\ snap' = IF r.exc = "none" THEN [snap EXCEPT ![dst] = NoSnap] ELSE snap
      /\ out' = [Idle EXCEPT !.op = "from_dict", !.exc = r.exc, !.other = dst, !.data = d]
      /\ UNCHANGED <<fs, edits, hist, projects>>

\* the children arguments a caller passes to MerkleNode(...): None, {}, one child
ChildrenArgs ==
  {NoneDict, EmptyDict,
   SomeDict([n \in {"c.txt"} |-> ChildInput(ProjRoot \o <<"b">>)])}

\* MerkleNode(name, path, hash, is_file, children)
NewNode(is_file, children) ==
  LET r == MerkleNode("b", ProjRoot \o <<"b">>, HashA, is_file, children)
  IN  /\ out' = [Idle EXCEPT !.op = "MerkleNode", !.exc = r.exc, !.arg = HashA,
                             !.node = r.val,
                             !.count = IF children.some
                                         THEN Cardinality(DOMAIN children.dict) ELSE 0]
      /\ UNCHANGED <<fs, edits, hist, trees, snap, projects>>

NextOps ==
  \/ \E h \in HashArgs : CreateFileNode(h)
  \/ \E h \in {Rep(65), NotAHash} : CreateDirectoryNode(h)
  \/ \E is_file \in BOOLEAN, children \in ChildrenArgs : NewNode(is_file, children)
  \/ NewEmpty("B")
  \/ \E s \in Slots, pos \in {<<>>, <<"a.txt">>, <<"b">>} : AddChild(s, pos)
  \/ \E s \in Slots, pos \in {<<>>, <<"b">>}, name \in {"a.txt", "c.txt"} : GetChild(s, pos, name)
  \/ \E s \in Slots : GetRootHash(s)
  \/ \E s \in Slots : GetFileCount(s)
  \/ \E s1, s2 \in Slots : FindDifferences(s1, s2)
  \/ \E s \in Slots : ToDict(s)
  \/ \E s \in Slots : FromDict(s)
  \/ \E d \in RecordInputs : FromRecord("B", d)
  \/ \E p \in {ProjRoot, <<"/", "nowhere">>} : BuildFromDirectory("B", p)

SpecOps == InitOps /\ [][NextOps]_vars

\* every Directory node under root carries the composition of its children's hashes
AllComposed(root) ==
  \A q \in PositionsOf(root) : ~NodeAt(root, q).is_file => Composed(NodeAt(root, q))

\* the hash fields of a node record and of the records below it
RECURSIVE RecordHashes(_)
RecordHashes(rec) ==
  {rec.hash} \cup
    (IF rec.children.some
       THEN UNION {RecordHashes(rec.children.dict[n]) : n \in DOMAIN rec.children.dict}
       ELSE {})

\* 64 hexadecimal characters of either case; 64 lowercase hexadecimal characters
IsHash64(h) ==
  Len(h) = 64 /\ \A i \in 1 .. Len(h) : h[i] \in (48 .. 57) \cup (97 .. 102) \cup (65 .. 70)
IsLowerHash64(h) ==
  Len(h) = 64 /\ \A i \in 1 .. Len(h) : h[i] \in (48 .. 57) \cup (97 .. 102)

(***************************************************************************)
(* C13  Hash consistency: from_dict of a record gives a tree, and in every *)
(* tree that from_dict gives, and in a tree with composed hashes after any *)
(* node operation, each Directory node's hash is the composition (sort,    *)
(* join with "|", SHA-256) of the hashes of the children it holds.         *)
(***************************************************************************)
C13_HashConsistency ==
  /\ (out.op = "from_dict" /\ \A h \in RecordHashes(out.data.root) : IsHash64(h)) =>
       /\ out.exc = "none"
       /\ trees[out.other].root # NoNode
       /\ AllComposed(trees[out.other].root)
  /\ trees["B"].root # NoNode => AllComposed(trees["B"].root)

(***************************************************************************)
(* C14  Hash validation: creating a node, directly or in from_dict, fails  *)
(* with InvalidHashError unless the hash is 64 hexadecimal characters; on  *)
(* success the lowercase form is stored; the hash of every node of every   *)
(* tree and every hash field to_dict gives is 64 lowercase hex characters. *)
(***************************************************************************)
C14_HashValidation ==
  /\ out.op \in {"create_file_node", "create_directory_node"} =>
       IF IsHash64(out.arg)
         THEN out.exc = "none" /\ out.node # NoNode /\ out.node.hash = lower(out.arg)
                /\ IsLowerHash64(out.node.hash)
         ELSE out.exc = "InvalidHashError" /\ out.node = NoNode
  /\ (out.op = "from_dict" /\ out.data.root # NoRecord) =>
       IF \A h \in RecordHashes(out.data.root) : IsHash64(h)
         THEN out.exc = "none" /\ trees[out.other].root # NoNode
         ELSE out.exc = "InvalidHashError"
  /\ \A s \in Slots :
       trees[s].root # NoNode =>
         \A q \in PositionsOf(trees[s].root) : IsLowerHash64(NodeAt(trees[s].root, q).hash)
  /\ (out.op = "to_dict" /\ out.data.root # NoRecord) =>
       \A h \in RecordHashes(out.data.root) : IsLowerHash64(h)

\* the entries of f a build reaches and can read: not ignored, and readable down from the root
Survivors(f) ==
  {p \in AllPaths :
     /\ f[p].kind # "absent"
     /\ \A k \in Len(ProjRoot) .. Len(p) : f[SubSeq(p, 1, k)].readable
     /\ \A k \in Len(ProjRoot) + 1 .. Len(p) : p[k] \notin ignored_patterns}

\* the paths of the nodes of the tree in s
PathsOf(s) == {NodeAt(trees[s].root, q).path : q \in PositionsOf(trees[s].root)}

(***************************************************************************)
(* C15  Ignore set: a built tree holds, at no depth, a child named .env,   *)
(* .gitignore, .git, .DS_Store, __pycache__, .venv or venv; and two builds *)
(* over contents that differ in ignored entries only give equal root       *)
(* hashes and equal file counts.                                           *)
(***************************************************************************)
C15_IgnoreSet ==
  /\ \A s \in Slots :
       Built(s) =>
         /\ BuiltOk(s)
         /\ \A q \in PositionsOf(trees[s].root) \ {<<>>} :
              NodeAt(trees[s].root, q).name
                \notin {".env", ".gitignore", ".git", ".DS_Store", "__pycache__", ".venv", "venv"}
  /\ (Built("A") /\ Built("B") /\ \A p \in UserPaths : SnapFs("A")[p] = SnapFs("B")[p]) =>
       /\ BuiltOk("A") /\ BuiltOk("B")
       /\ get_root_hash(Obj("A")) = get_root_hash(Obj("B"))
       /\ get_file_count(Obj("A")) = get_file_count(Obj("B"))

(***************************************************************************)
(* C16  Best-effort traversal: a build over an existing root raises        *)
(* nothing, whichever entries under it cannot be opened, read or listed;   *)
(* the tree holds exactly the entries that could be read, and each         *)
(* Directory hash is composed of the hashes of the children that remain.   *)
(***************************************************************************)
C16_BestEffort ==
  \A s \in Slots :
    Built(s) =>
      /\ snap[s].exc = "none"
      /\ trees[s].root # NoNode
      /\ PathsOf(s) = Survivors(SnapFs(s))
      /\ AllComposed(trees[s].root)

(***************************************************************************)
(* C17  PathNotFound: MerkleTree(p) and build_from_directory(p) on a path  *)
(* p that does not exist raise FileNotFoundError and change nothing: the   *)
(* constructor gives no tree, and an existing tree object keeps its root   *)
(* and its root_path.                                                      *)
(***************************************************************************)
C17_PathNotFound ==
  [][(out'.op \in {"MerkleTree", "build_from_directory"}
        /\ out'.arg # NonePath /\ ~exists(fs, out'.arg)) =>
       (out'.exc = "FileNotFoundError" /\ trees' = trees)]_vars

\* build_from_directory on a missing path, on an object whose root_path an earlier build set
C17_Witness ==
  /\ out.op = "build_from_directory"
  /\ ~exists(fs, out.arg)
  /\ out.exc = "FileNotFoundError"
  /\ trees[out.self].root_path = ProjRoot

\* the node records of a record of to_dict
RECURSIVE Records(_)
Records(rec) ==
  {rec} \cup
    (IF rec.children.some
       THEN UNION {Records(rec.children.dict[n]) : n \in DOMAIN rec.children.dict}
       ELSE {})

\* rec is the record of node: the four fields, and "children" exactly for a
\* Directory that holds a child
RECURSIVE RecordOf(_, _)
RecordOf(node, rec) ==
  /\ rec.name = node.name /\ rec.path = node.path
  /\ rec.hash = node.hash /\ rec.is_file = node.is_file
  /\ rec.children.some
       = (~node.is_file /\ node.children.some /\ DOMAIN node.children.dict # {})
  /\ rec.children.some =>
       /\ DOMAIN rec.children.dict = DOMAIN node.children.dict
       /\ \A n \in DOMAIN rec.children.dict :
            RecordOf(node.children.dict[n], rec.children.dict[n])

BuiltAt(s) == snap[s].at > 0

\* the directory at path holds nothing in f
EmptyDir(f, path) == f[path].kind = "dir" /\ listdir(f, path) = {}

(***************************************************************************)
(* C21  Empty directory: a build over an existing empty directory gives a  *)
(* tree whose root is a Directory with no children, file count 0 and the   *)
(* hash SHA-256 of the empty string; two trees built over empty            *)
(* directories have equal root hashes and no differences.                  *)
(***************************************************************************)
C21_EmptyDirectory ==
  /\ \A s \in Slots :
       (BuiltAt(s) /\ EmptyDir(SnapFs(s), snap[s].path)) =>
         /\ snap[s].exc = "none"
         /\ trees[s].root # NoNode
         /\ ~trees[s].root.is_file
         /\ trees[s].root.children = EmptyDict
         /\ get_file_count(Obj(s)) = 0
         /\ trees[s].root.hash = sha256(<<>>)
  /\ (\A s \in Slots : BuiltAt(s) /\ EmptyDir(SnapFs(s), snap[s].path)) =>
       /\ get_root_hash(Obj("A")) = get_root_hash(Obj("B"))
       /\ get_root_hash(Obj("A")).exc = "none"
       /\ \A ord \in Orders : find_differences(Obj("A"), Obj("B"), ord).changed = <<>>

\* node is well formed at path, as a build over f makes it
RECURSIVE WellFormed(_, _, _)
WellFormed(node, path, f) ==
  /\ node.path = path
  /\ node.name = basename(path)
  /\ node.is_file = (f[path].kind = "file")
  /\ node.is_file => node.hash = sha256(f[path].content)
  /\ ~node.is_file =>
       /\ node.children.some
       /\ \A n \in DOMAIN node.children.dict :
            /\ node.children.dict[n].name = n
            /\ WellFormed(node.children.dict[n], join(path, n), f)

(***************************************************************************)
(* C22  Built-tree well-formedness: a build over an existing path gives a  *)
(* tree with a root whose path is the tree's absolute root_path; every     *)
(* File node's name is the basename of its path and its hash SHA-256 of    *)
(* the file's bytes; every Directory maps each child name to a node of     *)
(* that name whose path is the directory's path joined with the name.      *)
(***************************************************************************)
C22_WellFormed ==
  \A s \in Slots :
    BuiltAt(s) =>
      /\ snap[s].exc = "none"
      /\ trees[s].root # NoNode
      /\ trees[s].root_path = snap[s].path
      /\ WellFormed(trees[s].root, trees[s].root_path, SnapFs(s))

(***************************************************************************)
(* C23  A File node never owns children: a node with is_file true has no   *)
(* children when it is made, whatever children its constructor is given,   *)
(* and in every tree after every operation; get_child on it returns None;  *)
(* add_child on it raises ValueError and changes nothing.                  *)
(***************************************************************************)
C23_FileHasNoChildren ==
  [][/\ \A s \in Slots :
          trees'[s].root # NoNode =>
            \A q \in PositionsOf(trees'[s].root) :
              NodeAt(trees'[s].root, q).is_file =>
                NodeAt(trees'[s].root, q).children = NoneDict
     /\ (out'.op \in {"MerkleNode", "create_file_node"} /\ out'.exc = "none"
           /\ out'.node.is_file) =>
          out'.node.children = NoneDict
     /\ (out'.op = "get_child" /\ NodeAt(trees[out'.self].root, out'.arg).is_file) =>
          out'.node = NoNode
     /\ (out'.op = "add_child" /\ NodeAt(trees[out'.self].root, out'.arg).is_file) =>
          out'.exc = "ValueError" /\ trees' = trees
    ]_vars

\* a File node was made by a constructor call that was given a child
C23_Witness ==
  /\ out.op = "MerkleNode"
  /\ out.exc = "none"
  /\ out.node.is_file
  /\ out.count = 1
  /\ out.node.children = NoneDict

(***************************************************************************)
(* C24  Empty tree: MerkleTree() has no root; on a tree without root the   *)
(* file count is 0, get_root_hash raises EmptyTreeError, a MerkleTreeError,*)
(* and neither changes the tree; to_dict gives a record whose root is      *)
(* null, and from_dict of a record whose root is null gives a tree without *)
(* root and with the record's root_path.                                   *)
(***************************************************************************)
C24_EmptyTree ==
  [][/\ (out'.op = "MerkleTree" /\ out'.arg = NonePath) =>
          /\ out'.exc = "none"
          /\ trees'[out'.self] = [alive |-> TRUE, root |-> NoNode, root_path |-> NonePath]
     /\ (out'.op = "get_file_count" /\ trees[out'.self].root = NoNode) =>
          out'.count = 0 /\ trees' = trees
     /\ (out'.op = "get_root_hash" /\ trees[out'.self].root = NoNode) =>
          /\ out'.exc = "EmptyTreeError"
          /\ out'.exc \in MerkleTreeErrors
          /\ trees' = trees
     /\ (out'.op = "to_dict" /\ trees[out'.self].root = NoNode) =>
          /\ out'.data = [root |-> NoRecord, root_path |-> trees[out'.self].root_path]
          /\ trees' = trees
     /\ (out'.op = "from_dict" /\ out'.data.root = NoRecord) =>
          /\ out'.exc = "none"
          /\ trees'[out'.other]
               = [alive |-> TRUE, root |-> NoNode, root_path |-> out'.data.root_path]
    ]_vars

\* the record of a tree made by MerkleTree() was read back by from_dict
C24_Witness ==
  /\ out.op = "from_dict"
  /\ out.exc = "none"
  /\ out.data = [root |-> NoRecord, root_path |-> NonePath]
  /\ trees[out.other].root = NoNode
  /\ trees[out.self].root = NoNode

(***************************************************************************)
(* src/agent/server.py: ServerState                                        *)
(*                                                                         *)
(* A registry maps a project id, an absolute path, to the entry            *)
(* project_path, project_name, tree (a record of to_dict), registered_at   *)
(* and last_sync.  datetime.now() is the argument now.  A call gives its   *)
(* exception, its value and the registry it leaves.                        *)
(***************************************************************************)
\* self.projects[project_id] = entry
Store(reg, project_id, entry) ==
  [id \in DOMAIN reg \cup {project_id} |-> IF id = project_id THEN entry ELSE reg[id]]

\* register_project if it stored the entry before it built the tree
register_project_StoreFirst(reg, f, project_path, now) ==
  LET abs_path == abspath(project_path)
      built == MerkleTree(f, abs_path)
      entry == [project_path |-> abs_path, project_name |-> basename(abs_path),
                tree |-> to_dict(built.val), registered_at |-> now, last_sync |-> now]
  IN  IF ~exists(f, abs_path)
        THEN [exc |-> "ValueError", val |-> abs_path, projects |-> reg]
      ELSE IF built.exc # "none"
        THEN [exc |-> "ValueError", val |-> abs_path,
              projects |-> Store(reg, abs_path, entry)]
        ELSE [exc |-> "none", val |-> abs_path, projects |-> Store(reg, abs_path, entry)]

\* ServerState.register_project(project_path)
register_project(reg, f, project_path, now) ==
  LET abs_path == abspath(project_path)
      project_id == abs_path
      built == MerkleTree(f, abs_path)
  IN  IF ~exists(f, abs_path)
        THEN [exc |-> "ValueError", val |-> project_id, projects |-> reg]
      ELSE IF built.exc # "none"
        THEN [exc |-> "ValueError", val |-> project_id, projects |-> reg]
        ELSE [exc |-> "none", val |-> project_id,
              projects |-> Store(reg, project_id,
                                 [project_path |-> abs_path,
                                  project_name |-> basename(abs_path),
                                  tree |-> to_dict(built.val),
                                  registered_at |-> now,
                                  last_sync |-> now])]

\* lines 107-134 of sync_project: the comparison with the stored tree
CompareTrees(reg, project_id, client_tree_dict, now, ord) ==
  LET server_tree == from_dict(reg[project_id].tree)
      client_tree == from_dict(client_tree_dict)
      run == find_differences(server_tree.val, client_tree.val, ord)
      changed_files == run.changed
      trees_match == Len(changed_files) = 0
  IN  IF server_tree.exc # "none" \/ client_tree.exc # "none" \/ run.exc # "none"
        THEN [exc |-> "HTTPException", resp |-> NoResp, projects |-> reg]
        ELSE [exc |-> "none",
              resp |-> [server_has_project |-> TRUE, trees_match |-> trees_match,
                        changed_files |-> changed_files],
              projects |-> IF trees_match THEN reg
                           ELSE [reg EXCEPT ![project_id].tree = client_tree_dict,
                                            ![project_id].last_sync = now]]

\* ServerState.sync_project(project_id, client_tree_dict)
sync_project(reg, f, project_id, client_tree_dict, now, ord) ==
  IF project_id \in DOMAIN reg
    THEN CompareTrees(reg, project_id, client_tree_dict, now, ord)
    ELSE LET client_path == client_tree_dict.root_path
         IN  IF client_path = NonePath
               THEN [exc |-> "none", resp |-> NoResp, projects |-> reg]
               ELSE LET r == register_project(reg, f, client_path, now)
                    IN  IF r.exc # "none" \/ r.val # project_id
                          THEN [exc |-> "none", resp |-> NoResp, projects |-> r.projects]
                          ELSE CompareTrees(r.projects, project_id, client_tree_dict,
                                            now, ord)

\* the values of datetime.now()
Times == {1, 2}

\* the project ids a client sends: the project root, absolute and relative, a
\* subdirectory, a path the server does not have
ProjectIds == InputPaths

\* the records a client sends as its tree: without root, with and without
\* root_path, over a missing path; a File root, with a hash and with a string
\* that is no hash; a record without the key root
ClientTrees ==
  {[root |-> NoRecord, root_path |-> rp] : rp \in {NonePath, ProjRoot, <<"/", "nowhere">>}}
  \cup
  {[root |-> [name |-> "proj", path |-> ProjRoot, hash |-> h, is_file |-> TRUE,
              children |-> NoneDict],
    root_path |-> ProjRoot] : h \in {HashA, NotAHash}}
  \cup
  {[root |-> MissingField, root_path |-> ProjRoot]}

\* POST /register
RegisterProject(project_path) ==
  /\ \E now \in Times :
       LET r == register_project(projects, fs, project_path, now)
       IN  /\ projects' = r.projects
           /\ out' = [Idle EXCEPT !.op = "register_project", !.exc = r.exc,
                                  !.arg = project_path]
  /\ UNCHANGED <<fs, edits, hist, trees, snap>>

\* POST /sync
SyncProject(project_id, client_tree_dict) ==
  /\ \E now \in Times, ord \in Orders :
       LET r == sync_project(projects, fs, project_id, client_tree_dict, now, ord)
       IN  /\ projects' = r.projects
           /\ out' = [Idle EXCEPT !.op = "sync_project", !.exc = r.exc,
                                  !.arg = project_id, !.data = client_tree_dict,
                                  !.resp = r.resp]
  /\ UNCHANGED <<fs, edits, hist, trees, snap>>

InitServer == Init

NextServer ==
  \/ \E p \in UserPaths, c \in Contents : WriteFile(p, c)
  \/ \E p \in UserPaths : DeleteFile(p)
  \/ \E p \in UserPaths : Protect(p)
  \/ \E p \in InputPaths : RegisterProject(p)
  \/ \E id \in ProjectIds, d \in ClientTrees : SyncProject(id, d)

SpecServer == InitServer /\ [][NextServer]_vars

\* the client tree record d cannot be read by from_dict
Corrupt(d) ==
  \/ d.root = MissingField
  \/ d.root # NoRecord /\ \E h \in RecordHashes(d.root) : ~IsHash64(h)

\* the server has the path the client names, and project_id is that path
Registrable(f, project_id, d) ==
  /\ d.root_path # NonePath
  /\ exists(f, d.root_path)
  /\ abspath(d.root_path) = project_id

\* the root hash of a tree record, the empty string for a record without root
RootHashOf(d) == IF d.root = NoRecord THEN <<>> ELSE d.root.hash

C29_DiffSymmetry ==
  (Built("A") /\ Built("B")) =>
    /\ BuiltOk("A") /\ BuiltOk("B")
    /\ \A ord \in Orders :
         Range(find_differences(Obj("A"), Obj("B"), ord).changed)
           = Range(find_differences(Obj("B"), Obj("A"), ord).changed)

(***************************************************************************)
(* C30  No duplicates: for two built trees, find_differences gives no path *)
(* twice: the length of the list is the number of distinct paths in it.    *)
(***************************************************************************)
C30_NoDuplicates ==
  \A s1, s2 \in Slots :
    (BuiltAt(s1) /\ BuiltAt(s2)) =>
      /\ snap[s1].exc = "none" /\ trees[s1].root # NoNode
      /\ snap[s2].exc = "none" /\ trees[s2].root # NoNode
      /\ \A ord \in Orders :
           LET changed == find_differences(Obj(s1), Obj(s2), ord).changed
           IN  Len(changed) = Cardinality(Range(changed))

====
